---- MODULE Spec2Model ----
(***************************************************************************)
(* DuaScreen's offline-aware content loader, src/app/(tabs)/_layout.tsx.   *)
(*                                                                         *)
(* The state is the screen's React state (subcategory, subcategoryDuas,    *)
(* loading, error), the route parameter subcategoryId, the AsyncStorage    *)
(* key-value store, and the position and locals of every running          *)
(* fetchData (the effect of lines 125-216) or retry handler (the onPress   *)
(* of lines 601-643).  An action is the resolution of one await together   *)
(* with the synchronous continuation that runs up to the next await.       *)
(* The sound objects of lines 195-205 and the favourite, audio, toast and  *)
(* sharing handlers touch none of this state and are left out.             *)
(***************************************************************************)
EXTENDS Naturals, Sequences, FiniteSets, TLC

(* ------------------------------ bounds -------------------------------- *)

\* Number of fetchData / retry runs started in one behaviour.
MaxOps == 2

\* The remote data of a key takes the versions 1..MaxVersion.
MaxVersion == 2

\* Slots for runs that are in flight at the same time.
MaxInFlight == 2

Keys == {"1", "2"}
Versions == 1..MaxVersion
Procs == 1..MaxInFlight

(* ------------------------------ values -------------------------------- *)

\* useLocalSearchParams() without the parameter: undefined, which a template
\* literal prints as "undefined".
NoId == "undefined"
Ids == Keys \cup {NoId}

\* JavaScript's null / undefined, one per type of slot.
NullError == "null"
NullItem == <<>>
NullSubcategory == [null |-> TRUE]
Undefined == [undefined |-> TRUE]
UndefinedItem == <<"undefined">>

\* The messages of setError.
ErrNoId == "No subcategory ID found"
ErrOffline == "No internet connection and no cached data available. Please connect to the internet and try again."
ErrFailed == "Failed to load duas. Please try again later."
ErrRetryOffline == "No internet connection and no cached data available."
ErrRetryFailed == "Failed to load data. Please check your connection and try again."

\* What the API answers for a key: a Subcategory and the list of its Duas.
\* The loader passes the records through; name stands for their content.
SubcategoryOf(id, v) == [id |-> id, name |-> v]
DuasOf(id, v) == << [subcategory_id |-> id, name |-> v] >>

\* JSON.stringify: the text as a sequence of tokens.
StringifySubcategory(d) == << "{", "id", d.id, "name", d.name, "}" >>
StringifyDuas(ds) ==
  << "[" >> \o << "{", "subcategory_id", ds[1].subcategory_id, "name", ds[1].name, "}" >> \o << "]" >>

\* A stored text that JSON.parse rejects (a truncated object).
Malformed == << "{", "id" >>

\* JSON.parse returns a value exactly for the well-formed texts.
ParsesAsSubcategory(s) == Len(s) = 6 /\ s[1] = "{" /\ s[6] = "}"
ParsesAsDuas(s) == Len(s) = 8 /\ s[1] = "[" /\ s[8] = "]"
ParseThrows(s) == ~ParsesAsSubcategory(s) /\ ~ParsesAsDuas(s)
ParseSubcategory(s) == [id |-> s[3], name |-> s[5]]
ParseDuas(s) == << [subcategory_id |-> s[4], name |-> s[6]] >>
JSONParse(s) == IF ParsesAsSubcategory(s) THEN ParseSubcategory(s) ELSE ParseDuas(s)

\* The AsyncStorage keys: fetchData's namespace and the retry handler's.
SubcategoryCacheKey(id) == << "subcategory_", id, "_cache" >>
DuasCacheKey(id) == << "duas_", id, "_cache" >>
SubcategoryRetryKey(id) == << "subcategory_", id >>
DuasRetryKey(id) == << "duas_", id >>
StoreKeys ==
  {SubcategoryCacheKey(k) : k \in Keys} \cup {DuasCacheKey(k) : k \in Keys}
    \cup {SubcategoryRetryKey(k) : k \in Ids} \cup {DuasRetryKey(k) : k \in Ids}

\* JavaScript truthiness of a string | null.
Truthy(s) == s # NullItem
ErrorShown(e) == e # "" /\ e # NullError

\* if (cachedSubcategory && cachedDuas) (lines 148 and 630).
CacheHit(cs, cd) == Truthy(cs) /\ Truthy(cd)

\* Variant of ResponseOk: the status is not looked at.
ResponseOkUnchecked(r) == TRUE

\* response.ok (lines 163, 167, 608 and 612) of a response r that arrived.
ResponseOk(r) == r = "ok"

\* Variants of OfflineError: the message is set whatever the cache gave; it is never set.
OfflineErrorAlways(fromCache, e) == ErrOffline
OfflineErrorNever(fromCache, e) == e

\* else if (!fromCache) setError(...) (lines 190-193): the error after an
\* offline probe, e being the error so far.
OfflineError(fromCache, e) == IF fromCache THEN e ELSE ErrOffline

\* Variant of IsConnected: the probe's answer is not looked at.
IsConnectedUnchecked(netInfo) == TRUE

\* if (netInfo.isConnected) (line 159).
IsConnected(netInfo) == netInfo = "connected"

\* Variant of UpdatesUI: the fetched bundle always replaces what is on screen.
UpdatesUIAlways(fromCache) == TRUE

\* if (!fromCache) (line 175): whether the fetched bundle is put on screen.
UpdatesUI(fromCache) == ~fromCache

(* ------------------------------- state -------------------------------- *)

VARIABLES
  subcategoryId,    \* the route parameter (line 104)
  subcategory,      \* useState<Subcategory | null>(null) (line 112)
  subcategoryDuas,  \* useState<Dua[]>([]) (line 113)
  loading,          \* useState(true) (line 114)
  error,            \* useState<string | null>('') (line 115)
  store,            \* AsyncStorage: key text -> value text, NullItem when absent
  writer,           \* history: per store key, the run whose setItem wrote the value (0: none)
  task,             \* the running fetchData / retry handlers: position and locals
  lastFetched,      \* history: per id, the bundle of the last fetch whose two requests succeeded
  ops,              \* history: the number of runs started
  lastFresh         \* history: what the run before the latest one fetched and put on
                    \* screen, << key, bundle >>, when it was a fetchData that found no
                    \* cache entry; NoBundle otherwise

vars == << subcategoryId, subcategory, subcategoryDuas, loading, error, store, writer, task, lastFetched, ops, lastFresh >>

NoBundle == << >>

\* The locals of a run that has just been called.  events is history: what
\* happened to this run ("probeThrew", "readThrew", "parseThrew", "reject",
\* "notok", "badBody", "fetchedSub", "fetched", "wroteSub", "wroteDuas",
\* "writeThrew"; for a retry also "hadEntry": the store held both texts of its
\* key when it was pressed); run is history: the number of the run, in starting order.
NewTask(kind, id, pc) ==
  [ kind |-> kind, run |-> 0, pc |-> pc, key |-> id, netInfo |-> "unset",
    cachedSubcategory |-> UndefinedItem, cachedDuas |-> UndefinedItem,
    fromCache |-> FALSE, subcategoryData |-> Undefined, duasData |-> << Undefined >>,
    events |-> {} ]

IdleTask == NewTask("none", NoId, "idle")

\* What the ended run t leaves in lastFresh.
FreshOf(t) ==
  IF t.kind = "load" /\ t.pc = "done" /\ ~t.fromCache /\ "wroteDuas" \in t.events
       /\ t.cachedSubcategory = NullItem /\ t.cachedDuas = NullItem
    THEN << t.key, << t.subcategoryData, t.duasData >> >>
    ELSE NoBundle

InFlight(p) == task[p].pc \notin {"idle", "done"}
Quiescent == \A p \in Procs : ~InFlight(p)

\* A new run takes the lowest slot that holds no run in flight.
FreeSlot(p) == ~InFlight(p) /\ \A q \in Procs : q < p => InFlight(q)

EmptyStore == [k \in StoreKeys |-> NullItem]

\* The store when the screen opens: empty (first launch), holding the entry an
\* earlier successful fetch of one key left, or holding such an entry with one
\* of its two texts damaged.
SeededStore(k, sub, duas) ==
  [EmptyStore EXCEPT ![SubcategoryCacheKey(k)] = sub, ![DuasCacheKey(k)] = duas]
InitStores ==
  {EmptyStore}
    \cup { SeededStore(k, StringifySubcategory(SubcategoryOf(k, 1)), StringifyDuas(DuasOf(k, 1))) : k \in Keys }
    \cup { SeededStore(k, Malformed, StringifyDuas(DuasOf(k, 1))) : k \in Keys }
    \cup { SeededStore(k, StringifySubcategory(SubcategoryOf(k, 1)), Malformed) : k \in Keys }

Init ==
  /\ subcategoryId = NoId
  /\ subcategory = NullSubcategory
  /\ subcategoryDuas = << >>
  /\ loading = TRUE
  /\ error = ""
  /\ store \in InitStores
  /\ writer = [k \in StoreKeys |-> 0]
  /\ task = [p \in Procs |-> IdleTask]
  /\ lastFetched = [k \in Ids |-> NoBundle]
  /\ ops = 0
  /\ lastFresh = NoBundle

(* ------------------------- fetchData (lines 126-213) ------------------- *)

\* t with the event e recorded.
Note(t, e) == [t EXCEPT !.events = @ \cup {e}]

\* Variant of Finish: the run ends without touching loading.
FinishKeepsLoading(p, t) ==
  /\ UNCHANGED loading
  /\ task' = [task EXCEPT ![p] = [t EXCEPT !.pc = "done"]]

\* finally { setLoading(false) } (lines 210-212): the run p ends with locals t.
Finish(p, t) ==
  /\ loading' = FALSE
  /\ task' = [task EXCEPT ![p] = [t EXCEPT !.pc = "done"]]

\* catch (err) { setError('Failed to load duas. ...') } (lines 207-209), then finally.
OuterCatch(p, t) ==
  /\ error' = ErrFailed
  /\ Finish(p, t)

\* Variant of InnerCatch: the network failure is surfaced like any other error.
InnerCatchSurfaced(p, t) ==
  /\ error' = ErrFailed
  /\ Finish(p, t)

\* The inner catch (lines 183-189) only logs; control leaves the if of line 159
\* and reaches finally.  A response that is not ok takes the same way out.
InnerCatch(p, t) ==
  /\ Finish(p, t)
  /\ UNCHANGED error

\* Lines 127-134 and 142: fetchData is called for route parameter id and runs to
\* its first await, NetInfo.fetch(), or returns at once when there is no id.
StartFetchData(p, id) ==
  /\ FreeSlot(p)
  /\ ops < MaxOps
  /\ ops' = ops + 1
  /\ lastFresh' = FreshOf(task[p])
  /\ subcategoryId' = id
  /\ IF id = NoId
       THEN /\ error' = ErrNoId
            /\ loading' = FALSE
            /\ task' = [task EXCEPT ![p] = [NewTask("load", id, "done") EXCEPT !.run = ops + 1]]
       ELSE /\ error' = NullError
            /\ loading' = TRUE
            /\ task' = [task EXCEPT ![p] = [NewTask("load", id, "netinfo") EXCEPT !.run = ops + 1]]
  /\ UNCHANGED << store, writer, lastFetched >>

\* The screen is opened: a new component instance with the initial state of
\* lines 112-115, whose effect (lines 125-216) calls fetchData.
Mount(p, id) ==
  /\ Quiescent
  /\ subcategory' = NullSubcategory
  /\ subcategoryDuas' = << >>
  /\ StartFetchData(p, id)

\* The route parameter changes under the mounted screen: the effect's
\* dependency [subcategoryId] (line 216) calls fetchData again.
Navigate(p, id) ==
  /\ ops > 0
  /\ id # subcategoryId
  /\ UNCHANGED << subcategory, subcategoryDuas >>
  /\ StartFetchData(p, id)

\* Line 142 returns, then line 145 is called.
NetInfoReturn(p) ==
  /\ task[p].pc = "netinfo"
  /\ \E r \in {"connected", "offline", "throw"} :
       IF r = "throw"
         THEN OuterCatch(p, Note(task[p], "probeThrew"))
         ELSE /\ task' = [task EXCEPT ![p] = [@ EXCEPT !.netInfo = r, !.pc = "getSub"]]
              /\ UNCHANGED << loading, error >>
  /\ UNCHANGED << subcategoryId, subcategory, subcategoryDuas, store, writer, lastFetched, ops, lastFresh >>

\* Line 145 returns, then line 146 is called.
GetSubReturn(p) ==
  /\ task[p].pc = "getSub"
  /\ \E ok \in BOOLEAN :
       IF ~ok
         THEN OuterCatch(p, Note(task[p], "readThrew"))
         ELSE /\ task' = [task EXCEPT ![p] =
                   [@ EXCEPT !.cachedSubcategory = store[SubcategoryCacheKey(task[p].key)],
                             !.pc = "getDuas"]]
              /\ UNCHANGED << loading, error >>
  /\ UNCHANGED << subcategoryId, subcategory, subcategoryDuas, store, writer, lastFetched, ops, lastFresh >>

\* Line 146 returns; lines 148-162 or 148-156, 190-193 and 210-212 follow.
GetDuasReturn(p) ==
  /\ task[p].pc = "getDuas"
  /\ \E ok \in BOOLEAN :
       LET cs == task[p].cachedSubcategory
           cd == store[DuasCacheKey(task[p].key)]
           hit == CacheHit(cs, cd)
           t1 == [task[p] EXCEPT !.cachedDuas = cd]
           t2 == IF hit
                   THEN [t1 EXCEPT !.subcategoryData = JSONParse(cs),
                                   !.duasData = JSONParse(cd),
                                   !.fromCache = TRUE]
                   ELSE t1
       IN  IF ~ok
             THEN /\ OuterCatch(p, Note(task[p], "readThrew"))
                  /\ UNCHANGED << subcategory, subcategoryDuas >>
           ELSE IF hit /\ (ParseThrows(cs) \/ ParseThrows(cd))
             THEN /\ OuterCatch(p, Note(t1, "parseThrew"))
                  /\ UNCHANGED << subcategory, subcategoryDuas >>
           ELSE /\ IF hit
                     THEN /\ subcategory' = JSONParse(cs)
                          /\ subcategoryDuas' = JSONParse(cd)
                     ELSE UNCHANGED << subcategory, subcategoryDuas >>
                /\ IF IsConnected(task[p].netInfo)
                     THEN /\ task' = [task EXCEPT ![p] = [t2 EXCEPT !.pc = "fetchSub"]]
                          /\ UNCHANGED << loading, error >>
                     ELSE /\ error' = OfflineError(hit, error)
                          /\ Finish(p, t2)
  /\ UNCHANGED << subcategoryId, store, writer, lastFetched, ops, lastFresh >>

\* Line 162 returns; line 163 decides, then line 164 is called.
FetchSubReturn(p) ==
  /\ task[p].pc = "fetchSub"
  /\ \E r \in {"reject", "notok", "ok"} :
       LET t == IF r = "ok" THEN task[p] ELSE Note(task[p], r) IN
       IF r # "reject" /\ ResponseOk(r)
         THEN /\ task' = [task EXCEPT ![p] = [t EXCEPT !.pc = "jsonSub"]]
              /\ UNCHANGED << loading, error >>
         ELSE InnerCatch(p, t)
  /\ UNCHANGED << subcategoryId, subcategory, subcategoryDuas, store, writer, lastFetched, ops, lastFresh >>

\* Line 164 returns, then line 166 is called.
JsonSubReturn(p) ==
  /\ task[p].pc = "jsonSub"
  /\ \/ InnerCatch(p, Note(task[p], "badBody"))
     \/ \E v \in Versions :
          /\ task' = [task EXCEPT ![p] =
               [Note(@, "fetchedSub") EXCEPT !.subcategoryData = SubcategoryOf(task[p].key, v), !.pc = "fetchDuas"]]
          /\ UNCHANGED << loading, error >>
  /\ UNCHANGED << subcategoryId, subcategory, subcategoryDuas, store, writer, lastFetched, ops, lastFresh >>

\* Line 166 returns; line 167 decides, then line 168 is called.
FetchDuasReturn(p) ==
  /\ task[p].pc = "fetchDuas"
  /\ \E r \in {"reject", "notok", "ok"} :
       LET t == IF r = "ok" THEN task[p] ELSE Note(task[p], r) IN
       IF r # "reject" /\ ResponseOk(r)
         THEN /\ task' = [task EXCEPT ![p] = [t EXCEPT !.pc = "jsonDuas"]]
              /\ UNCHANGED << loading, error >>
         ELSE InnerCatch(p, t)
  /\ UNCHANGED << subcategoryId, subcategory, subcategoryDuas, store, writer, lastFetched, ops, lastFresh >>

\* Line 168 returns, then the setItem of line 171 is called.
JsonDuasReturn(p) ==
  /\ task[p].pc = "jsonDuas"
  /\ \/ /\ InnerCatch(p, Note(task[p], "badBody"))
        /\ UNCHANGED lastFetched
     \/ \E v \in Versions :
          LET duas == DuasOf(task[p].key, v) IN
          /\ task' = [task EXCEPT ![p] =
               [Note(@, "fetched") EXCEPT !.duasData = duas, !.pc = "setSub"]]
          /\ lastFetched' = [lastFetched EXCEPT ![task[p].key] = << task[p].subcategoryData, duas >>]
          /\ UNCHANGED << loading, error >>
  /\ UNCHANGED << subcategoryId, subcategory, subcategoryDuas, store, writer, ops, lastFresh >>

\* Variant of SetItem: the write is dropped.
SetItemDropped(key, value) == UNCHANGED store

\* AsyncStorage.setItem(key, value) takes effect.
SetItem(key, value) == store' = [store EXCEPT ![key] = value]

\* Line 171 returns, then the setItem of line 172 is called.
SetSubReturn(p) ==
  /\ task[p].pc = "setSub"
  /\ \E ok \in BOOLEAN :
       IF ok
         THEN /\ SetItem(SubcategoryCacheKey(task[p].key), StringifySubcategory(task[p].subcategoryData))
              /\ writer' = [writer EXCEPT ![SubcategoryCacheKey(task[p].key)] = task[p].run]
              /\ task' = [task EXCEPT ![p] = [Note(@, "wroteSub") EXCEPT !.pc = "setDuas"]]
              /\ UNCHANGED << loading, error >>
         ELSE /\ InnerCatch(p, Note(task[p], "writeThrew"))
              /\ UNCHANGED << store, writer >>
  /\ UNCHANGED << subcategoryId, subcategory, subcategoryDuas, lastFetched, ops, lastFresh >>

\* Line 172 returns; lines 175-180 and 210-212 follow.
SetDuasReturn(p) ==
  /\ task[p].pc = "setDuas"
  /\ \E ok \in BOOLEAN :
       IF ok
         THEN /\ SetItem(DuasCacheKey(task[p].key), StringifyDuas(task[p].duasData))
              /\ writer' = [writer EXCEPT ![DuasCacheKey(task[p].key)] = task[p].run]
              /\ IF UpdatesUI(task[p].fromCache)
                   THEN /\ subcategory' = task[p].subcategoryData
                        /\ subcategoryDuas' = task[p].duasData
                   ELSE UNCHANGED << subcategory, subcategoryDuas >>
              /\ Finish(p, Note(task[p], "wroteDuas"))
              /\ UNCHANGED error
         ELSE /\ InnerCatch(p, Note(task[p], "writeThrew"))
              /\ UNCHANGED << store, writer, subcategory, subcategoryDuas >>
  /\ UNCHANGED << subcategoryId, lastFetched, ops, lastFresh >>

(* --------------------- retry handler (lines 601-643) ------------------- *)

\* Lines 601-607: the Retry button, rendered when loading is false and error
\* is set (lines 590-600), is pressed; the handler runs to its first fetch.
RetryPress(p) ==
  /\ ~loading
  /\ ErrorShown(error)
  /\ FreeSlot(p)
  /\ ops < MaxOps
  /\ ops' = ops + 1
  /\ lastFresh' = FreshOf(task[p])
  /\ loading' = TRUE
  /\ error' = ""
  /\ task' = [task EXCEPT ![p] =
       [NewTask("retry", subcategoryId, "rFetchSub") EXCEPT
          !.run = ops + 1,
          !.events = IF Truthy(store[SubcategoryRetryKey(subcategoryId)])
                          /\ Truthy(store[DuasRetryKey(subcategoryId)])
                       THEN {"hadEntry"} ELSE {}]]
  /\ UNCHANGED << subcategoryId, subcategory, subcategoryDuas, store, writer, lastFetched >>

\* Variant of RetryCatch: a failed fetch ends the retry with the no-data
\* message, the cache is not consulted.
RetryCatchNoFallback(p, t) ==
  /\ error' = ErrRetryOffline
  /\ loading' = FALSE
  /\ task' = [task EXCEPT ![p] = [t EXCEPT !.pc = "done"]]

\* catch (networkError) (lines 622-627): the getItem of line 627 is called.
RetryCatch(p, t) ==
  /\ task' = [task EXCEPT ![p] = [t EXCEPT !.pc = "rGetSub"]]
  /\ UNCHANGED << loading, error >>

\* Line 607 returns; line 608 throws or line 609 is called.
RetryFetchSubReturn(p) ==
  /\ task[p].pc = "rFetchSub"
  /\ \E r \in {"reject", "notok", "ok"} :
       LET t == IF r = "ok" THEN task[p] ELSE Note(task[p], r) IN
       IF r # "reject" /\ ResponseOk(r)
         THEN /\ task' = [task EXCEPT ![p] = [t EXCEPT !.pc = "rJsonSub"]]
              /\ UNCHANGED << loading, error >>
         ELSE RetryCatch(p, t)
  /\ UNCHANGED << subcategoryId, subcategory, subcategoryDuas, store, writer, lastFetched, ops, lastFresh >>

\* Line 609 returns, then line 611 is called.
RetryJsonSubReturn(p) ==
  /\ task[p].pc = "rJsonSub"
  /\ \/ RetryCatch(p, Note(task[p], "badBody"))
     \/ \E v \in Versions :
          /\ task' = [task EXCEPT ![p] =
               [Note(@, "fetchedSub") EXCEPT !.subcategoryData = SubcategoryOf(task[p].key, v), !.pc = "rFetchDuas"]]
          /\ UNCHANGED << loading, error >>
  /\ UNCHANGED << subcategoryId, subcategory, subcategoryDuas, store, writer, lastFetched, ops, lastFresh >>

\* Line 611 returns; line 612 throws or line 613 is called.
RetryFetchDuasReturn(p) ==
  /\ task[p].pc = "rFetchDuas"
  /\ \E r \in {"reject", "notok", "ok"} :
       LET t == IF r = "ok" THEN task[p] ELSE Note(task[p], r) IN
       IF r # "reject" /\ ResponseOk(r)
         THEN /\ task' = [task EXCEPT ![p] = [t EXCEPT !.pc = "rJsonDuas"]]
              /\ UNCHANGED << loading, error >>
         ELSE RetryCatch(p, t)
  /\ UNCHANGED << subcategoryId, subcategory, subcategoryDuas, store, writer, lastFetched, ops, lastFresh >>

\* Line 613 returns, then the setItem of line 616 is called.
RetryJsonDuasReturn(p) ==
  /\ task[p].pc = "rJsonDuas"
  /\ \/ /\ RetryCatch(p, Note(task[p], "badBody"))
        /\ UNCHANGED lastFetched
     \/ \E v \in Versions :
          LET duas == DuasOf(task[p].key, v) IN
          /\ task' = [task EXCEPT ![p] =
               [Note(@, "fetched") EXCEPT !.duasData = duas, !.pc = "rSetSub"]]
          /\ lastFetched' = [lastFetched EXCEPT ![task[p].key] = << task[p].subcategoryData, duas >>]
          /\ UNCHANGED << loading, error >>
  /\ UNCHANGED << subcategoryId, subcategory, subcategoryDuas, store, writer, ops, lastFresh >>

\* Line 616 returns, then the setItem of line 617 is called.
RetrySetSubReturn(p) ==
  /\ task[p].pc = "rSetSub"
  /\ \E ok \in BOOLEAN :
       IF ok
         THEN /\ SetItem(SubcategoryRetryKey(task[p].key), StringifySubcategory(task[p].subcategoryData))
              /\ writer' = [writer EXCEPT ![SubcategoryRetryKey(task[p].key)] = task[p].run]
              /\ task' = [task EXCEPT ![p] = [Note(@, "wroteSub") EXCEPT !.pc = "rSetDuas"]]
              /\ UNCHANGED << loading, error >>
         ELSE /\ RetryCatch(p, Note(task[p], "writeThrew"))
              /\ UNCHANGED << store, writer >>
  /\ UNCHANGED << subcategoryId, subcategory, subcategoryDuas, lastFetched, ops, lastFresh >>

\* Line 617 returns; lines 619-621 follow.
RetrySetDuasReturn(p) ==
  /\ task[p].pc = "rSetDuas"
  /\ \E ok \in BOOLEAN :
       IF ok
         THEN /\ SetItem(DuasRetryKey(task[p].key), StringifyDuas(task[p].duasData))
              /\ writer' = [writer EXCEPT ![DuasRetryKey(task[p].key)] = task[p].run]
              /\ subcategory' = task[p].subcategoryData
              /\ subcategoryDuas' = task[p].duasData
              /\ loading' = FALSE
              /\ task' = [task EXCEPT ![p] = [Note(@, "wroteDuas") EXCEPT !.pc = "done"]]
              /\ UNCHANGED error
         ELSE /\ RetryCatch(p, Note(task[p], "writeThrew"))
              /\ UNCHANGED << store, writer, subcategory, subcategoryDuas >>
  /\ UNCHANGED << subcategoryId, lastFetched, ops, lastFresh >>

\* catch (cacheError) { setError('Failed to load data. ...') } (lines 637-639),
\* then the setLoading(false) of line 641.
RetryCacheCatch(p, t) ==
  /\ error' = ErrRetryFailed
  /\ loading' = FALSE
  /\ task' = [task EXCEPT ![p] = [t EXCEPT !.pc = "done"]]

\* Line 627 returns, then line 628 is called.
RetryGetSubReturn(p) ==
  /\ task[p].pc = "rGetSub"
  /\ \E ok \in BOOLEAN :
       IF ~ok
         THEN RetryCacheCatch(p, Note(task[p], "readThrew"))
         ELSE /\ task' = [task EXCEPT ![p] =
                   [@ EXCEPT !.cachedSubcategory = store[SubcategoryRetryKey(task[p].key)],
                             !.pc = "rGetDuas"]]
              /\ UNCHANGED << loading, error >>
  /\ UNCHANGED << subcategoryId, subcategory, subcategoryDuas, store, writer, lastFetched, ops, lastFresh >>

\* Line 628 returns; lines 630-641 follow.  setSubcategory(JSON.parse(...)) of
\* line 631 has run when the JSON.parse of line 632 throws.
RetryGetDuasReturn(p) ==
  /\ task[p].pc = "rGetDuas"
  /\ \E ok \in BOOLEAN :
       LET cs == task[p].cachedSubcategory
           cd == store[DuasRetryKey(task[p].key)]
           t1 == [task[p] EXCEPT !.cachedDuas = cd]
       IN  IF ~ok
             THEN /\ RetryCacheCatch(p, Note(task[p], "readThrew"))
                  /\ UNCHANGED << subcategory, subcategoryDuas >>
           ELSE IF ~CacheHit(cs, cd)
             THEN /\ error' = ErrRetryOffline
                  /\ loading' = FALSE
                  /\ task' = [task EXCEPT ![p] = [t1 EXCEPT !.pc = "done"]]
                  /\ UNCHANGED << subcategory, subcategoryDuas >>
           ELSE IF ParseThrows(cs)
             THEN /\ RetryCacheCatch(p, Note(t1, "parseThrew"))
                  /\ UNCHANGED << subcategory, subcategoryDuas >>
           ELSE IF ParseThrows(cd)
             THEN /\ RetryCacheCatch(p, Note(t1, "parseThrew"))
                  /\ subcategory' = JSONParse(cs)
                  /\ UNCHANGED subcategoryDuas
           ELSE /\ subcategory' = JSONParse(cs)
                /\ subcategoryDuas' = JSONParse(cd)
                /\ loading' = FALSE
                /\ task' = [task EXCEPT ![p] = [t1 EXCEPT !.fromCache = TRUE, !.pc = "done"]]
                /\ UNCHANGED error
  /\ UNCHANGED << subcategoryId, store, writer, lastFetched, ops, lastFresh >>

(* ---------------------- what is rendered (590-650) -------------------- *)

\* loading ? spinner : error ? message and Retry : the list of subcategoryDuas.
View == IF loading THEN "loading" ELSE IF ErrorShown(error) THEN "error" ELSE "content"

\* What fetchData ends with, by its three decisions: the cache test of line
\* 148 (hit), the probe's answer tested at line 159 (connected) and whether
\* the inner try reached line 175 (fetched: both requests and both cache
\* writes succeeded).  "cache": lines 152-153 displayed the entry and, with
\* fromCache set, nothing replaces it; "error": line 192; "network": lines
\* 176-177; "none": no setState call with data or an error.
LoadKind(hit, connected, fetched) ==
  IF hit THEN "cache"
  ELSE IF ~connected THEN "error"
  ELSE IF fetched THEN "network"
  ELSE "none"

(* --------------------------- specifications --------------------------- *)

Step(p) ==
  \/ NetInfoReturn(p)
  \/ GetSubReturn(p)
  \/ GetDuasReturn(p)
  \/ FetchSubReturn(p)
  \/ JsonSubReturn(p)
  \/ FetchDuasReturn(p)
  \/ JsonDuasReturn(p)
  \/ SetSubReturn(p)
  \/ SetDuasReturn(p)
  \/ RetryFetchSubReturn(p)
  \/ RetryJsonSubReturn(p)
  \/ RetryFetchDuasReturn(p)
  \/ RetryJsonDuasReturn(p)
  \/ RetrySetSubReturn(p)
  \/ RetrySetDuasReturn(p)
  \/ RetryGetSubReturn(p)
  \/ RetryGetDuasReturn(p)

\* One run at a time: the route parameter changes only between runs.
Next ==
  \E p \in Procs :
    \/ \E id \in Ids : Mount(p, id)
    \/ \E id \in Ids : Quiescent /\ Navigate(p, id)
    \/ RetryPress(p)
    \/ Step(p)

Spec == Init /\ [][Next]_vars

\* The store when the screen opens after an earlier session: empty, or holding
\* the entry a successful fetchData left for one key, or the entry a
\* successful retry left for one key.
InitRetryStores ==
  {EmptyStore}
    \cup { SeededStore(k, StringifySubcategory(SubcategoryOf(k, 1)), StringifyDuas(DuasOf(k, 1))) : k \in Keys }
    \cup { [EmptyStore EXCEPT ![SubcategoryRetryKey(k)] = StringifySubcategory(SubcategoryOf(k, 1)),
                              ![DuasRetryKey(k)] = StringifyDuas(DuasOf(k, 1))] : k \in Keys }

InitRetry ==
  /\ subcategoryId = NoId
  /\ subcategory = NullSubcategory
  /\ subcategoryDuas = << >>
  /\ loading = TRUE
  /\ error = ""
  /\ store \in InitRetryStores
  /\ writer = [k \in StoreKeys |-> 0]
  /\ task = [p \in Procs |-> IdleTask]
  /\ lastFetched = [k \in Ids |-> NoBundle]
  /\ ops = 0
  /\ lastFresh = NoBundle

SpecRetry == InitRetry /\ [][Next]_vars

\* Overlapping runs: nothing in the effect of lines 125-216 waits for, or
\* cancels, the fetchData of the previous route parameter.
NextConc ==
  \E p \in Procs :
    \/ \E id \in Ids : Mount(p, id)
    \/ \E id \in Ids : Navigate(p, id)
    \/ RetryPress(p)
    \/ Step(p)

SpecConc == Init /\ [][NextConc]_vars

\* Every probe, storage and network call returns or fails: a run that is
\* awaiting one takes its next step.
SpecLive == Init /\ [][NextConc]_vars /\ \A p \in Procs : WF_vars(Step(p))

(* ------------------------------- claims -------------------------------- *)

\* The bundles the API can answer for a key.
Bundles(k) == { << SubcategoryOf(k, v1), DuasOf(k, v2) >> : v1 \in Versions, v2 \in Versions }

\* The cache entry fetchData reads for key k is the stored form of bundle b.
HoldsBundle(k, b) ==
  /\ store[SubcategoryCacheKey(k)] = StringifySubcategory(b[1])
  /\ store[DuasCacheKey(k)] = StringifyDuas(b[2])

\* The run with locals t read the stored form of bundle b from the cache.
ReadBundle(t, b) ==
  /\ t.cachedSubcategory = StringifySubcategory(b[1])
  /\ t.cachedDuas = StringifyDuas(b[2])

\* Bundle b is what the screen's state holds.
Displayed(b) == subcategory = b[1] /\ subcategoryDuas = b[2]

\* Slot p holds a fetchData for a key that has run to its end.
LoadDone(p) == task[p].kind = "load" /\ task[p].pc = "done" /\ task[p].key \in Keys

\* Both getItem calls of the run returned.
ReadsReturned(t) == t.cachedSubcategory # UndefinedItem /\ t.cachedDuas # UndefinedItem

NetFailures == {"reject", "notok", "badBody"}
NetFailed(t) == t.events \cap NetFailures # {}

\* Both requests of the run succeeded.
Fetched(t) == "fetched" \in t.events

\* C1: a fetchData whose probe reports offline and whose two cache reads return
\* a valid entry ends with exactly the stored bundle on screen and no error.
C1_CachedWhenOffline ==
  \A p \in Procs : \A b \in Bundles(task[p].key) :
    (LoadDone(p) /\ task[p].netInfo = "offline" /\ ReadsReturned(task[p])
       /\ HoldsBundle(task[p].key, b))
      => (Displayed(b) /\ error = NullError /\ View = "content")

C1_Witness ==
  \E p \in Procs : \E b \in Bundles(task[p].key) :
    /\ LoadDone(p) /\ task[p].netInfo = "offline" /\ ReadsReturned(task[p])
    /\ HoldsBundle(task[p].key, b) /\ task[p].fromCache /\ Displayed(b)

\* C2: a fetchData whose probe reports offline for a key with no cache entry
\* ends showing the error view (the offline message when its reads returned)
\* and has written nothing to the store.
C2_UnavailableWhenOfflineNoCache ==
  \A p \in Procs :
    (LoadDone(p) /\ task[p].netInfo = "offline"
       /\ ~CacheHit(store[SubcategoryCacheKey(task[p].key)], store[DuasCacheKey(task[p].key)]))
      => /\ View = "error"
         /\ ReadsReturned(task[p]) => error = ErrOffline
         /\ task[p].events \cap {"wroteSub", "wroteDuas"} = {}

C2_Witness ==
  \E p \in Procs :
    /\ LoadDone(p) /\ task[p].netInfo = "offline" /\ ReadsReturned(task[p])
    /\ store[SubcategoryCacheKey(task[p].key)] = NullItem
    /\ store[DuasCacheKey(task[p].key)] = NullItem
    /\ error = ErrOffline /\ ~task[p].fromCache

\* C3: a fetchData that finds no cache entry and whose two requests and two
\* cache writes succeed ends with the fetched bundle on screen and no error; and
\* the next fetchData of the same key, when its probe reports offline and its
\* reads return, ends with that same bundle on screen and no error.
C3_FreshThenCached ==
  \A p \in Procs :
    /\ (LoadDone(p) /\ ~task[p].fromCache /\ ReadsReturned(task[p]) /\ Fetched(task[p])
          /\ "writeThrew" \notin task[p].events)
         => (Displayed(lastFetched[task[p].key]) /\ error = NullError /\ View = "content")
    /\ (LoadDone(p) /\ task[p].netInfo = "offline" /\ ReadsReturned(task[p])
          /\ lastFresh # NoBundle /\ lastFresh[1] = task[p].key)
         => (Displayed(lastFresh[2]) /\ error = NullError /\ View = "content")

C3_Witness ==
  \E p \in Procs :
    /\ LoadDone(p) /\ task[p].netInfo = "offline" /\ ReadsReturned(task[p])
    /\ lastFresh # NoBundle /\ lastFresh[1] = task[p].key
    /\ task[p].fromCache /\ Displayed(lastFresh[2])

\* C4: whenever a run (fetchData or retry) has fetched a key's bundle and
\* finished its writes, the cache entry fetchData reads for that key is the
\* bundle of the latest successful fetch of the key.
C4_CacheHoldsLatestFetch ==
  \A p \in Procs :
    (task[p].pc = "done" /\ task[p].key \in Keys /\ Fetched(task[p])
       /\ "writeThrew" \notin task[p].events)
      => HoldsBundle(task[p].key, lastFetched[task[p].key])

WritesFetched(p, key, new) ==
  LET k == task[p].key IN
  /\ task[p].pc \in {"setSub", "setDuas", "rSetSub", "rSetDuas"}
  /\ Fetched(task[p])
  /\ ~NetFailed(task[p])
  /\ lastFetched[k] # NoBundle
  /\ \/ /\ key \in {SubcategoryCacheKey(k), SubcategoryRetryKey(k)}
        /\ new = StringifySubcategory(lastFetched[k][1])
     \/ /\ key \in {DuasCacheKey(k), DuasRetryKey(k)}
        /\ new = StringifyDuas(lastFetched[k][2])

\* C6: a step changes a store entry only by writing, for a run whose metadata
\* and items requests both succeeded, the stored form of what that run
\* fetched; no step deletes an entry, and no step of a run with a failed
\* request changes the store.
C6_CacheWrittenOnlyByFullFetch ==
  [][ \A key \in StoreKeys :
        store'[key] # store[key]
          => /\ store'[key] # NullItem
             /\ \E p \in Procs : WritesFetched(p, key, store'[key]) ]_vars

C6_Witness ==
  \E p \in Procs : \E b \in Bundles(task[p].key) :
    /\ LoadDone(p) /\ task[p].fromCache /\ ReadBundle(task[p], b)
    /\ "fetchedSub" \in task[p].events /\ NetFailed(task[p])
    /\ HoldsBundle(task[p].key, b)

\* C7: a fetchData whose probe reports connected and whose cache read fails
\* (a getItem rejects or a stored text does not parse) does not end in an
\* error state.
C7_CacheReadProblemIsMiss ==
  \A p \in Procs :
    (LoadDone(p) /\ task[p].netInfo = "connected"
       /\ task[p].events \cap {"readThrew", "parseThrew"} # {})
      => ~ErrorShown(error)

\* C8: a fetchData that read bundle b from the cache, whose probe reports
\* connected and whose network attempt fails at either stage, ends with b on
\* screen and no error.
C8_NetworkFailureSwallowed ==
  \A p \in Procs : \A b \in Bundles(task[p].key) :
    (LoadDone(p) /\ task[p].fromCache /\ ReadBundle(task[p], b)
       /\ task[p].netInfo = "connected" /\ NetFailed(task[p]))
      => (Displayed(b) /\ error = NullError /\ View = "content")

C8_Witness ==
  \E p \in Procs : \E b \in Bundles(task[p].key) :
    /\ LoadDone(p) /\ task[p].fromCache /\ ReadBundle(task[p], b)
    /\ task[p].netInfo = "connected" /\ "badBody" \in task[p].events
    /\ "fetchedSub" \in task[p].events /\ Displayed(b)

\* C9: a fetchData that found no cache hit and whose two requests succeeded
\* ends with the fetched bundle on screen and no error, whether or not its
\* cache writes succeeded.
C9_FreshDespiteWriteFailure ==
  \A p \in Procs :
    (LoadDone(p) /\ ~task[p].fromCache /\ ReadsReturned(task[p]) /\ Fetched(task[p]))
      => (Displayed(lastFetched[task[p].key]) /\ ~ErrorShown(error))

\* The three outcomes of a finished fetchData.
OutcomeFresh(p) ==
  ~ErrorShown(error) /\ ~task[p].fromCache /\ Fetched(task[p])
    /\ Displayed(<< task[p].subcategoryData, task[p].duasData >>)
OutcomeCached(p) ==
  ~ErrorShown(error) /\ task[p].fromCache
    /\ \E b \in Bundles(task[p].key) : ReadBundle(task[p], b) /\ Displayed(b)
OutcomeUnavailable(p) == ErrorShown(error)

\* C10: every finished fetchData ended Fresh, Cached or Unavailable (the three
\* exclude one another: an error is shown or not, the cache was hit or not).
C10_OneOfThreeOutcomes ==
  \A p \in Procs :
    LoadDone(p) => (OutcomeFresh(p) \/ OutcomeCached(p) \/ OutcomeUnavailable(p))

\* C13: in every fetchData, a request is in flight or done only if the probe
\* reported connected; the items request is issued, and everything after it
\* happens, only after the metadata request returned an ok status and a body
\* that parsed; and a cache write is issued only after the items request did
\* the same.
C13_RequestsInOrder ==
  \A p \in Procs :
    task[p].kind = "load" =>
      /\ (task[p].pc \in {"fetchSub", "jsonSub", "fetchDuas", "jsonDuas", "setSub", "setDuas"}
            \/ task[p].events \cap (NetFailures \cup {"fetchedSub", "fetched", "wroteSub", "wroteDuas", "writeThrew"}) # {})
           => task[p].netInfo = "connected"
      /\ (task[p].pc \in {"fetchDuas", "jsonDuas", "setSub", "setDuas"}
            \/ task[p].events \cap {"fetched", "wroteSub", "wroteDuas", "writeThrew"} # {})
           => /\ "fetchedSub" \in task[p].events
              /\ task[p].pc \in {"fetchDuas", "jsonDuas"} => ~NetFailed(task[p])
      /\ (task[p].pc \in {"setSub", "setDuas"}
            \/ task[p].events \cap {"wroteSub", "wroteDuas", "writeThrew"} # {})
           => (Fetched(task[p]) /\ ~NetFailed(task[p]))

C13_Witness ==
  \E p \in Procs :
    /\ task[p].kind = "load" /\ task[p].pc = "setDuas"
    /\ task[p].netInfo = "connected" /\ Fetched(task[p]) /\ "wroteSub" \in task[p].events

\* The bundle the fetchData with locals t handed to setSubcategory and
\* setSubcategoryDuas (lines 152-153 or 176-177), NoBundle when it made no such call.
SetBy(t) ==
  IF t.fromCache
    THEN << JSONParse(t.cachedSubcategory), JSONParse(t.cachedDuas) >>
    ELSE IF "wroteDuas" \in t.events
      THEN << t.subcategoryData, t.duasData >>
      ELSE NoBundle

\* C12: when the key changed while an earlier fetchData was in flight and every
\* run has ended, the screen holds what the fetchData of the latest key put
\* there: its bundle, with no error.
C12_AbandonedResultDiscarded ==
  \A p \in Procs : \A q \in Procs :
    ( /\ Quiescent
      /\ LoadDone(p) /\ LoadDone(q)
      /\ task[p].run < task[q].run /\ task[q].run = ops
      /\ task[p].key # task[q].key
      /\ SetBy(task[q]) # NoBundle )
    => (Displayed(SetBy(task[q])) /\ ~ErrorShown(error))

\* C16: loading is true in every state in which some run is in flight.
C16_LoadingWhileInFlight ==
  (\E p \in Procs : InFlight(p)) => loading

\* The two texts stored under the keys ks and kd are both absent, or both
\* present and written by the same run, hence from the one fetch that run made.
PairFromOneFetch(ks, kd) ==
  \/ store[ks] = NullItem /\ store[kd] = NullItem
  \/ store[ks] # NullItem /\ store[kd] # NullItem /\ writer[ks] = writer[kd]

\* Some run is between its two setItem calls for key k.
WritingPair(k) ==
  \E p \in Procs : task[p].key = k /\ task[p].pc \in {"setDuas", "rSetDuas"}

\* C14: for every key, whenever no run is between its two cache writes for
\* that key, the stored metadata and the stored items are both absent or come
\* from the same fetch, under the keys fetchData uses and under the keys the
\* retry handler uses.
C14_CacheEntriesFromOneFetch ==
  \A k \in Keys :
    ~WritingPair(k) =>
      /\ PairFromOneFetch(SubcategoryCacheKey(k), DuasCacheKey(k))
      /\ PairFromOneFetch(SubcategoryRetryKey(k), DuasRetryKey(k))

\* C15: every run that is in flight reaches its end, and loading is false in
\* the state in which it ends.
C15_LoadingEventuallyFalse ==
  \A p \in Procs : InFlight(p) ~> (task[p].pc = "done" /\ ~loading)

\* A fetchData has ended with an error and the retry pressed after it has
\* ended too, after a failed request and a cache miss, with loading false.
C15_Witness ==
  /\ ~loading
  /\ Quiescent
  /\ \E p \in Procs :
       /\ task[p].kind = "retry" /\ task[p].pc = "done"
       /\ NetFailed(task[p]) /\ ReadsReturned(task[p])

\* Slot p holds the latest run, it has ended, its key is present, and none of
\* its probe, getItem and JSON.parse calls threw.
LatestEnded(p) ==
  /\ task[p].pc = "done" /\ task[p].run = ops /\ task[p].key \in Keys
  /\ task[p].events \cap {"probeThrew", "readThrew", "parseThrew"} = {}

\* The kind of outcome the ended run in slot p left on screen.
KindShown(p) ==
  LET t == task[p] IN
  IF ErrorShown(error) THEN "error"
  ELSE IF t.fromCache /\ Displayed(<< JSONParse(t.cachedSubcategory), JSONParse(t.cachedDuas) >>)
    THEN "cache"
  ELSE IF "wroteDuas" \in t.events /\ Displayed(<< t.subcategoryData, t.duasData >>)
    THEN "network"
  ELSE "none"

\* The run with locals t fetched both bodies and stored both.
FetchedAndStored(t) == Fetched(t) /\ "wroteDuas" \in t.events

\* Connected is an answer the probe could have given for the run with locals
\* t: offline, the first request rejects.
ProbeAgrees(connected, t) ==
  connected \/ ("reject" \in t.events /\ "fetchedSub" \notin t.events)

\* Every ended fetchData ends as LoadKind says.
LoadEndsAsLoadKind ==
  \A p \in Procs :
    (LatestEnded(p) /\ task[p].kind = "load") =>
      KindShown(p) = LoadKind(CacheHit(task[p].cachedSubcategory, task[p].cachedDuas),
                              IsConnected(task[p].netInfo), FetchedAndStored(task[p]))

====
